---- MODULE Spec2Model ----
(***************************************************************************)
(* A model of src/translink-parser.js: the relational join, the calendar   *)
(* resolver, the time filter, the live-feed cache and the live merges.     *)
(*                                                                         *)
(* The pure functions (joinObjectsOnField, getActiveServicesOnDate,        *)
(* filterDataByTime) are each checked under their own specification, whose *)
(* initial states draw the arguments from bounded sets and whose single    *)
(* action applies the function.  The cache and the live merges are the     *)
(* state machine of the specification Spec; SpecLiveTrips applies          *)
(* joinLiveTripsToData alone to a range of feed payloads.                  *)
(*                                                                         *)
(* JavaScript strings that the code indexes or slices are sequences of     *)
(* one-character strings; strings that are only compared are TLA+ strings. *)
(***************************************************************************)
EXTENDS Integers, Sequences, FiniteSets, TLC

VARIABLES
    pc,                 \* "input" before the modelled function ran, "done" after
    joinType, left, right, joined,          \* joinObjectsOnField
    dateString, calendar, calendarDates, services,   \* getActiveServicesOnDate
    data, timeString, timeLength, filtered, \* filterDataByTime
    clock, files, lastCall, merged          \* getOnlineCachableData, live merges

vars == <<pc, joinType, left, right, joined,
          dateString, calendar, calendarDates, services,
          data, timeString, timeLength, filtered,
          clock, files, lastCall, merged>>

joinVars  == <<joinType, left, right, joined>>
calVars   == <<dateString, calendar, calendarDates, services>>
timeVars  == <<data, timeString, timeLength, filtered>>
cacheVars == <<clock, files, lastCall, merged>>

(***************************************************************************)
(* Bounds of the model.                                                    *)
(***************************************************************************)
MaxLeft == 2
MaxRight == 2
MaxCalendarRows == 2
MaxExceptionRows == 1
MaxData == 3
MaxTicks == 6
MaxMergeRows == 1
MaxLiveRows == 2

\* All sequences over S of length at most n.
SeqUpTo(S, n) == UNION {[1..k -> S] : k \in 0..n}

(***************************************************************************)
(* JavaScript values the code meets.                                       *)
(***************************************************************************)
\* The value of a property that an object does not have.
Undefined == "<undefined>"

\* null, as the element a map callback returns for a dropped row.
Null == [null |-> TRUE]

\* NaN: the result of Date.parse or of unary plus on a non-numeric string.
\* Every comparison with NaN is false and arithmetic on NaN gives NaN.
NaN == -1

IsNaN(x) == x = NaN

Plus(x, y) == IF IsNaN(x) \/ IsNaN(y) THEN NaN ELSE x + y

Times(x, y) == IF IsNaN(x) \/ IsNaN(y) THEN NaN ELSE x * y

Minus(x, y) == IF IsNaN(x) \/ IsNaN(y) THEN NaN ELSE x - y

LessThan(x, y) == ~IsNaN(x) /\ ~IsNaN(y) /\ x < y

GreaterThan(x, y) == ~IsNaN(x) /\ ~IsNaN(y) /\ x > y

GreaterOrEqual(x, y) == ~IsNaN(x) /\ ~IsNaN(y) /\ x >= y

\* obj[field]: the property's value, undefined when the object lacks it.
GetField(obj, field) == IF field \in DOMAIN obj THEN obj[field] ELSE Undefined

\* Array.prototype.find as a position: the first index whose element passes
\* the test, 0 when none does.
FindFirst(seq, Test(_)) ==
    IF \E i \in 1..Len(seq) : Test(seq[i])
    THEN CHOOSE i \in 1..Len(seq) :
             Test(seq[i]) /\ \A j \in 1..(i - 1) : ~Test(seq[j])
    ELSE 0

\* Array.prototype.map.
Map(seq, F(_)) == [i \in 1..Len(seq) |-> F(seq[i])]

(***************************************************************************)
(* joinObjectsOnField (src/translink-parser.js:128-163).                   *)
(***************************************************************************)
\* The field the joins of loadUQStopsData match on, and the fields carried.
onField == "trip_id"

addFieldsFromJoin == <<"route_id", "service_id">>

\* const mergedRight = {}; for (field of addFieldsFromJoin)
\*   if (rightItem.hasOwnProperty(field)) mergedRight[field] = rightItem[field]
MergedRight(rightItem, fields) ==
    LET present == {fields[i] : i \in 1..Len(fields)} \cap DOMAIN rightItem
    IN  [f \in present |-> rightItem[f]]

\* {...leftItem, ...mergedRight}: the later spread wins on a shared field.
Spread(leftItem, mergedRight) ==
    [f \in DOMAIN leftItem \cup DOMAIN mergedRight |->
        IF f \in DOMAIN mergedRight THEN mergedRight[f] ELSE leftItem[f]]

\* A variant of JoinItem that drops an unmatched left row whatever the kind.
JoinItemDroppingUnmatched(type, field, leftItem, rightRows, fields) ==
    LET Matches(rightItem) == GetField(rightItem, field) = GetField(leftItem, field)
        at == FindFirst(rightRows, Matches)
    IN  IF at = 0
        THEN Null
        ELSE Spread(leftItem, MergedRight(rightRows[at], fields))

\* A variant of JoinItem that joins a left row with the last right row of its
\* key and not with the first.
JoinItemLastMatch(type, field, leftItem, rightRows, fields) ==
    LET matching == {i \in 1..Len(rightRows) :
                        GetField(rightRows[i], field) = GetField(leftItem, field)}
        at == IF matching = {} THEN 0
              ELSE CHOOSE i \in matching : \A j \in matching : j <= i
    IN  IF at = 0
        THEN IF type = "inner" THEN Null ELSE leftItem
        ELSE Spread(leftItem, MergedRight(rightRows[at], fields))

\* The callback of left.map: one left row to its joined row, or to null.
JoinItem(type, field, leftItem, rightRows, fields) ==
    LET Matches(rightItem) == GetField(rightItem, field) = GetField(leftItem, field)
        at == FindFirst(rightRows, Matches)
    IN  IF at = 0
        THEN IF type = "inner" THEN Null ELSE leftItem
        ELSE Spread(leftItem, MergedRight(rightRows[at], fields))

\* A variant of JoinMapped that joins a left row with every right row of its
\* key (filter instead of find) and not with the first one only.
JoinMappedEveryMatch(type, field, leftRows, rightRows, fields) ==
    LET RowsFor(leftItem) ==
            LET Matches(rightItem) ==
                    GetField(rightItem, field) = GetField(leftItem, field)
                matching == SelectSeq(rightRows, Matches)
            IN  IF matching = <<>>
                THEN IF type = "inner" THEN <<>> ELSE <<leftItem>>
                ELSE [i \in 1..Len(matching) |->
                         Spread(leftItem, MergedRight(matching[i], fields))]
        RECURSIVE Flat(_)
        Flat(rows) == IF rows = <<>> THEN <<>>
                      ELSE RowsFor(Head(rows)) \o Flat(Tail(rows))
    IN  Flat(leftRows)

NotNull(item) == item # Null

\* left.map(...).filter(joined => joined != null)
JoinMapped(type, field, leftRows, rightRows, fields) ==
    LET Item(leftItem) == JoinItem(type, field, leftItem, rightRows, fields)
    IN  SelectSeq(Map(leftRows, Item), NotNull)

\* A right join is the left join with the operands swapped.
joinObjectsOnField(type, field, leftRows, rightRows, fields) ==
    IF type = "right"
    THEN JoinMapped("left", field, rightRows, leftRows, fields)
    ELSE JoinMapped(type, field, leftRows, rightRows, fields)

\* Rows offered as the left operand: stop times, one of them without the key
\* and two already holding a field that the join carries.
LeftRows ==
    { [trip_id |-> "T1", stop_id |-> "S1"],
      [trip_id |-> "T2", stop_id |-> "S1"],
      [trip_id |-> "T1", stop_id |-> "S2", route_id |-> "R0"],
      [stop_id |-> "S3"] }

\* Rows offered as the right operand: trips, with a duplicated key, a row
\* lacking a carried field and a row lacking the key.
RightRows ==
    { [trip_id |-> "T1", route_id |-> "R1", service_id |-> "SV1"],
      [trip_id |-> "T1", route_id |-> "R2", service_id |-> "SV2"],
      [trip_id |-> "T2", route_id |-> "R1"],
      [trip_id |-> "T3", route_id |-> "R2", service_id |-> "SV1"],
      [route_id |-> "R2", service_id |-> "SV2"] }

JoinTypes == {"inner", "left", "right"}

JoinIdle ==
    /\ joinType = "inner"
    /\ left = <<>>
    /\ right = <<>>
    /\ joined = <<>>

JoinInit ==
    /\ joinType \in JoinTypes
    /\ left \in SeqUpTo(LeftRows, MaxLeft)
    /\ right \in SeqUpTo(RightRows, MaxRight)
    /\ joined = <<>>

JoinCall ==
    /\ pc = "input"
    /\ joined' = joinObjectsOnField(joinType, onField, left, right, addFieldsFromJoin)
    /\ pc' = "done"
    /\ UNCHANGED <<joinType, left, right>>
    /\ UNCHANGED <<calVars, timeVars, cacheVars>>

(***************************************************************************)
(* Strings as character sequences, and Date.parse.                         *)
(***************************************************************************)
Digits == {"0", "1", "2", "3", "4", "5", "6", "7", "8", "9"}

DigitValue ==
    [c \in Digits |->
        CASE c = "0" -> 0 [] c = "1" -> 1 [] c = "2" -> 2 [] c = "3" -> 3
          [] c = "4" -> 4 [] c = "5" -> 5 [] c = "6" -> 6 [] c = "7" -> 7
          [] c = "8" -> 8 [] c = "9" -> 9]

\* String.prototype.slice(from, to) with 0-based, end-exclusive positions.
Slice(str, from, to) ==
    SubSeq(str, from + 1, IF to < Len(str) THEN to ELSE Len(str))

\* String.prototype.slice(from): to the end of the string.
SliceFrom(str, from) == SubSeq(str, from + 1, Len(str))

\* dateString.replaceAll("-", "")
RemoveDashes(str) ==
    LET NotDash(c) == c # "-" IN SelectSeq(str, NotDash)

\* Days from 1970-01-01 to the civil date y-m-d (proleptic Gregorian).
DaysFromCivil(y, m, d) ==
    LET yy  == IF m <= 2 THEN y - 1 ELSE y
        era == yy \div 400
        yoe == yy - era * 400
        mp  == (m + 9) % 12
        doy == (153 * mp + 2) \div 5 + d - 1
        doe == yoe * 365 + yoe \div 4 - yoe \div 100 + doy
    IN  era * 146097 + doe - 719468

\* Date.parse of a date-only string: the UTC midnight of YYYY-MM-DD, NaN for
\* a string that is not of that form.  The value is kept in days, not in
\* milliseconds: every such value is a whole number of days, and the code
\* only compares them.
DateParse(str) ==
    IF /\ Len(str) = 10
       /\ str[5] = "-" /\ str[8] = "-"
       /\ \A i \in {1, 2, 3, 4, 6, 7, 9, 10} : str[i] \in Digits
    THEN LET y == 1000 * DigitValue[str[1]] + 100 * DigitValue[str[2]]
                  + 10 * DigitValue[str[3]] + DigitValue[str[4]]
             m == 10 * DigitValue[str[6]] + DigitValue[str[7]]
             d == 10 * DigitValue[str[9]] + DigitValue[str[10]]
         IN  IF m \in 1..12 /\ d \in 1..31
             THEN DaysFromCivil(y, m, d)
             ELSE NaN
    ELSE NaN

\* new Date(dateString).getDay(): 0 = Sunday ... 6 = Saturday, read in a
\* time zone at or east of UTC, where the local day of a UTC midnight is the
\* same calendar day.  1970-01-01 was a Thursday.
GetDay(str) == (DateParse(str) + 4) % 7

(***************************************************************************)
(* Strict equality between values of different JavaScript types.           *)
(***************************************************************************)
Str(s) == [type |-> "string", value |-> s]

Num(n) == [type |-> "number", value |-> n]

Undef == [type |-> "undefined"]

\* a === b: false whenever the types differ.
StrictEquals(a, b) ==
    /\ a.type = b.type
    /\ (a.type = "undefined" \/ a.value = b.value)

\* key.name where key is a string primitive, as the loop variable of a
\* for...in over an array is: a string has no such property.
PropertyOfString(key, name) == Undef

(***************************************************************************)
(* getActiveServicesOnDate (src/translink-parser.js:170-241).              *)
(***************************************************************************)
\* let day = date.getDay(); if (day === 0) day = 7;
DayOfWeek(str) == IF GetDay(str) = 0 THEN 7 ELSE GetDay(str)

\* A parsed CSV row is an array of strings; row[i] of the code is Cell(row, i).
Cell(row, i) == row[i + 1]

\* The callback of the map over calendar.txt: null when the weekday cell is
\* strictly equal to the number 0.
CalendarItem(row, day) ==
    IF StrictEquals(Str(Cell(row, day)), Num(0))
    THEN Null
    ELSE [service_id |-> Cell(row, 0),
          start_date |-> Cell(row, 8),
          end_date   |-> Cell(row, 9)]

\* YYYYMMDD to the argument of Date.parse.
DashedSlices(str) ==
    Slice(str, 0, 4) \o <<"-">> \o Slice(str, 4, 6) \o <<"-">> \o SliceFrom(str, 6)

\* A variant of OutsideInterval that also rejects the end date itself.
OutsideIntervalOpenEnd(parsedDate, parsedStartDate, parsedEndDate) ==
    LessThan(parsedDate, parsedStartDate) \/ GreaterOrEqual(parsedDate, parsedEndDate)

\* if (parsedDate < parsedStartDate || parsedDate > parsedEndDate) return false
OutsideInterval(parsedDate, parsedStartDate, parsedEndDate) ==
    LessThan(parsedDate, parsedStartDate) \/ GreaterThan(parsedDate, parsedEndDate)

\* The callback of the filter over the mapped calendar rows.
CalendarKeep(item, str) ==
    IF item = Null
    THEN FALSE
    ELSE ~OutsideInterval(DateParse(str),
                          DateParse(DashedSlices(item.start_date)),
                          DateParse(DashedSlices(item.end_date)))

\* const services = calendarBaseServices.map(data => data.service_id)
CalendarBaseServices(calendarRows, str) ==
    LET Item(row) == CalendarItem(row, DayOfWeek(str))
        Keep(item) == CalendarKeep(item, str)
        ServiceId(item) == item.service_id
    IN  Map(SelectSeq(Map(calendarRows, Item), Keep), ServiceId)

\* The rows of calendar_dates.txt dated on the target date.
CalendarDateExceptions(exceptionRows, str) ==
    LET Item(row) == [service_id |-> Cell(row, 0),
                      date       |-> Cell(row, 1),
                      exception  |-> Cell(row, 2)]
        OnDate(item) == item.date = RemoveDashes(str)
    IN  SelectSeq(Map(exceptionRows, Item), OnDate)

\* for (const calendarDateException in calendarDateExceptions): the loop
\* variable takes the array's keys "0", "1", ..., not its elements.
ForInKeys(array) == [i \in 1..Len(array) |-> Str(i - 1)]

\* services.splice(spliceAt, 1), with spliceAt = -1 (findIndex found
\* nothing) removing the last element.
Splice(array, spliceAt) ==
    LET at == IF spliceAt = -1 THEN Len(array) ELSE spliceAt + 1
    IN  IF at \in 1..Len(array)
        THEN SubSeq(array, 1, at - 1) \o SubSeq(array, at + 1, Len(array))
        ELSE array

\* The body of the loop over the exceptions, for one loop variable.
ApplyException(array, key) ==
    LET exception == PropertyOfString(key, "exception")
        serviceId == PropertyOfString(key, "service_id")
        IsService(service) == StrictEquals(Str(service), serviceId)
    IN  IF StrictEquals(exception, Num(2))
        THEN Splice(array, FindFirst(array, IsService) - 1)
        ELSE IF StrictEquals(exception, Num(1))
             THEN Append(array, serviceId)
             ELSE array

RECURSIVE ApplyExceptions(_, _)
ApplyExceptions(array, keys) ==
    IF keys = <<>>
    THEN array
    ELSE ApplyExceptions(ApplyException(array, Head(keys)), Tail(keys))

getActiveServicesOnDate(str, calendarRows, exceptionRows) ==
    ApplyExceptions(CalendarBaseServices(calendarRows, str),
                    ForInKeys(CalendarDateExceptions(exceptionRows, str)))

\* The dates of the model, as the YYYYMMDD strings of the static tables.
\* 2023-12-31 is a Sunday, 2024-01-01 a Monday, 2024-01-06 a Saturday,
\* 2024-01-31 a Wednesday and 2024-02-01 a Thursday.
D20231231 == <<"2", "0", "2", "3", "1", "2", "3", "1">>

D20240101 == <<"2", "0", "2", "4", "0", "1", "0", "1">>

D20240106 == <<"2", "0", "2", "4", "0", "1", "0", "6">>

D20240131 == <<"2", "0", "2", "4", "0", "1", "3", "1">>

D20240201 == <<"2", "0", "2", "4", "0", "2", "0", "1">>

\* A date cell that is not a date.
EmptyString == <<>>

\* YYYYMMDD as the YYYY-MM-DD the user types.
Dashed(d) == SubSeq(d, 1, 4) \o <<"-">> \o SubSeq(d, 5, 6) \o <<"-">> \o SubSeq(d, 7, 8)

TargetDates == {Dashed(d) : d \in {D20231231, D20240101, D20240106, D20240131, D20240201}}

ServiceIds == {"SV1", "SV2"}

\* Monday to Friday only, and every day of the week.
WeekdayFlags == { <<"1", "1", "1", "1", "1", "0", "0">>,
                  <<"1", "1", "1", "1", "1", "1", "1">> }

\* January 2024, and a range whose end date cell is empty.
DateRanges == { <<D20240101, D20240131>>,
                <<D20240101, EmptyString>> }

CalendarRows ==
    { <<s>> \o f \o r : s \in ServiceIds, f \in WeekdayFlags, r \in DateRanges }

ExceptionRows ==
    { <<s, D20240101, t>> : s \in ServiceIds, t \in {"1", "2"} }

\* The first row csv-parse delivers is the header line of the file.
CalendarHeader ==
    << "service_id", "monday", "tuesday", "wednesday", "thursday", "friday",
       "saturday", "sunday",
       <<"s", "t", "a", "r", "t", "_", "d", "a", "t", "e">>,
       <<"e", "n", "d", "_", "d", "a", "t", "e">> >>

CalendarDatesHeader == << "service_id", <<"d", "a", "t", "e">>, "exception_type" >>

CalIdle ==
    /\ dateString = Dashed(D20240101)
    /\ calendar = <<CalendarHeader>>
    /\ calendarDates = <<CalendarDatesHeader>>
    /\ services = <<>>

CalInit ==
    /\ dateString \in TargetDates
    /\ calendar \in {<<CalendarHeader>> \o rows : rows \in SeqUpTo(CalendarRows, MaxCalendarRows)}
    /\ calendarDates \in {<<CalendarDatesHeader>> \o rows :
                             rows \in SeqUpTo(ExceptionRows, MaxExceptionRows)}
    /\ services = <<>>

CalendarCall ==
    /\ pc = "input"
    /\ services' = getActiveServicesOnDate(dateString, calendar, calendarDates)
    /\ pc' = "done"
    /\ UNCHANGED <<dateString, calendar, calendarDates>>
    /\ UNCHANGED <<joinVars, timeVars, cacheVars>>

(***************************************************************************)
(* filterDataByTime (src/translink-parser.js:251-272).                     *)
(***************************************************************************)
\* timeString[i]: the character at the 0-based position i, undefined past
\* the end of the string.
CharAt(str, i) == IF i + 1 \in 1..Len(str) THEN str[i + 1] ELSE Undefined

\* Unary plus on one character (or on undefined): its digit value, else NaN.
ToNumber(c) == IF c \in Digits THEN DigitValue[c] ELSE NaN

HHmmToMinuteCount(str) ==
    Plus(Plus(Plus(Times(ToNumber(CharAt(str, 0)), 600),
                   Times(ToNumber(CharAt(str, 1)), 60)),
              Times(ToNumber(CharAt(str, 3)), 10)),
         ToNumber(CharAt(str, 4)))

\* minuteArrivalTime >= minTime && minuteArrivalTime < maxTime
InTimeInterval(minuteArrivalTime, minTime, maxTime) ==
    GreaterOrEqual(minuteArrivalTime, minTime) /\ LessThan(minuteArrivalTime, maxTime)

filterDataByTime(rows, str, length) ==
    LET minTime == HHmmToMinuteCount(str)
        maxTime == Plus(minTime, length)
        Keep(row) == InTimeInterval(HHmmToMinuteCount(row.arrival_time), minTime, maxTime)
    IN  SelectSeq(rows, Keep)

\* The times the user may type: getValidatedTimeInput accepts
\* ^([0-1]?[0-9]|2[0-3]):[0-5][0-9]$, so the hour has one or two digits.
TimeInputs ==
    { <<"0", "8", ":", "0", "0">>,
      <<"8", ":", "0", "0">>,
      <<"0", "7", ":", "5", "0">>,
      <<"2", "3", ":", "5", "5">> }

\* Stop times with the HH:MM:SS arrival times of stop_times.txt.
StopTimeRows ==
    { [trip_id |-> "T1", arrival_time |-> <<"0", "7", ":", "5", "9", ":", "0", "0">>],
      [trip_id |-> "T2", arrival_time |-> <<"0", "8", ":", "0", "0", ":", "0", "0">>],
      [trip_id |-> "T3", arrival_time |-> <<"0", "8", ":", "0", "9", ":", "0", "0">>],
      [trip_id |-> "T4", arrival_time |-> <<"0", "8", ":", "1", "0", ":", "0", "0">>],
      [trip_id |-> "T5", arrival_time |-> <<"2", "3", ":", "5", "9", ":", "0", "0">>],
      [trip_id |-> "T6", arrival_time |-> <<"2", "4", ":", "0", "2", ":", "0", "0">>] }

\* mainLoop passes a window of 10 minutes.
TimeLengths == {5, 10}

TimeIdle ==
    /\ data = <<>>
    /\ timeString = <<"0", "8", ":", "0", "0">>
    /\ timeLength = 10
    /\ filtered = <<>>

TimeInit ==
    /\ data \in SeqUpTo(StopTimeRows, MaxData)
    /\ timeString \in TimeInputs
    /\ timeLength \in TimeLengths
    /\ filtered = <<>>

TimeCall ==
    /\ pc = "input"
    /\ filtered' = filterDataByTime(data, timeString, timeLength)
    /\ pc' = "done"
    /\ UNCHANGED <<data, timeString, timeLength>>
    /\ UNCHANGED <<joinVars, calVars, cacheVars>>

(***************************************************************************)
(* The cache store and the network, as getOnlineCachableData sees them     *)
(* (src/translink-parser.js:478-547).                                      *)
(***************************************************************************)
\* The two feeds, by the fileName the merges pass.
FeedNames == {"live_trips", "live_positions"}

\* The age in milliseconds from which a cached feed is no longer accepted.
TTL == 300000

\* The clock advances in steps of one minute.
TickMs == 60 * 1000

\* A file of the cache directory: absent, present with text JSON.parse
\* rejects, or present with a JSON object.
NoFile == [exists |-> FALSE]

Unparseable == [exists |-> TRUE, parses |-> FALSE]

JsonFile(object) == [exists |-> TRUE, parses |-> TRUE, json |-> object]

\* What fetch(url) does: rejects (transport failure), resolves with a
\* response whose ok is false, or resolves with an ok response and a body.
Rejected == [kind |-> "rejected"]

NotOk == [kind |-> "response", ok |-> FALSE]

Ok(body) == [kind |-> "response", ok |-> TRUE, json |-> body]

\* The trip-update feed the network may serve: one trip, with an arrival at
\* one stop and only a departure at another.
TripFeeds ==
    { [entity |->
        << [tripUpdate |->
              [trip |-> [tripId |-> "T1"],
               stopTimeUpdate |->
                 << [stopId |-> "S1", arrival |-> [time |-> 1704060300]],
                    [stopId |-> "S2", departure |-> [time |-> 1704060420]] >>]] >>] }

\* The vehicle-position feed the network may serve.
PositionFeeds ==
    { [entity |->
        << [vehicle |-> [trip |-> [tripId |-> "T1"],
                         position |-> "-27.4975,153.0137"]] >>] }

FeedsOf(fileName) == IF fileName = "live_trips" THEN TripFeeds ELSE PositionFeeds

Responses(fileName) == {Rejected, NotOk} \cup {Ok(body) : body \in FeedsOf(fileName)}

\* readJSONCache: the parsed file, null when reading or parsing throws.
readJSONCache(file) == IF file.parses THEN file.json ELSE Null

\* +data["cached_time"]: NaN when the object has no such field.
CachedTime(object) ==
    IF "cached_time" \in DOMAIN object THEN object.cached_time ELSE NaN

\* A variant of CacheIsFresh that still accepts an entry aged exactly 5 minutes.
CacheIsFreshInclusive(object, nowTime) ==
    ~GreaterThan(Minus(nowTime, CachedTime(object)), TTL)
        /\ ~IsNaN(Minus(nowTime, CachedTime(object)))

\* A variant of CacheIsFresh written as the negation of the staleness test,
\* which a NaN age passes.
CacheIsFreshNegated(object, nowTime) ==
    ~GreaterOrEqual(Minus(nowTime, CachedTime(object)), TTL)

\* nowTime - cachedDate < 300000
CacheIsFresh(object, nowTime) == LessThan(Minus(nowTime, CachedTime(object)), TTL)

\* The conditions under which line 490 returns the cached data.
CacheHit(file, nowTime) ==
    /\ file.exists
    /\ readJSONCache(file) # Null
    /\ CacheIsFresh(readJSONCache(file), nowTime)

\* parseOnlineDataToJSON for a response that fetch resolved with.
parseOnlineDataToJSON(response) == IF ~response.ok THEN Null ELSE response.json

\* data["cached_time"] = Date.now(): the object gains (or replaces) the field.
WithCachedTime(object, now) == Spread(object, [cached_time |-> now])

\* A variant of cacheJSONData that writes a file for a null object too.
cacheJSONDataWritingNull(object, file, now) ==
    IF object = Null
    THEN JsonFile([cached_time |-> now])
    ELSE JsonFile(WithCachedTime(object, now))

\* A variant of cacheJSONData that writes only when the feed has no file yet.
cacheJSONDataKeepingOld(object, file, now) ==
    IF object = Null \/ file.exists THEN file ELSE JsonFile(WithCachedTime(object, now))

\* cacheJSONData: the file after the call.  Setting a property on null
\* throws inside the try block, and nothing is written.
cacheJSONData(object, file, now) ==
    IF object = Null THEN file ELSE JsonFile(WithCachedTime(object, now))

\* One call of getOnlineCachableData at time nowTime, the network answering
\* with response: how the call ends, the value it returns, whether it
\* fetched, and the cache directory afterwards.  Date.now() reads nowTime
\* throughout the call.
getOnlineCachableData(fileName, store, nowTime, response) ==
    IF CacheHit(store[fileName], nowTime)
    THEN [outcome |-> "return", value |-> readJSONCache(store[fileName]),
          fetched |-> FALSE, files |-> store]
    ELSE IF response.kind = "rejected"
         THEN [outcome |-> "throw", value |-> Null, fetched |-> TRUE, files |-> store]
         ELSE LET object == parseOnlineDataToJSON(response)
              IN  [outcome |-> "return",
                   value |-> IF object = Null THEN Null
                             ELSE WithCachedTime(object, nowTime),
                   fetched |-> TRUE,
                   files |-> [store EXCEPT ![fileName] = cacheJSONData(object, @, nowTime)]]

(***************************************************************************)
(* joinLiveTripsToData and joinLivePositionToData                          *)
(* (src/translink-parser.js:302-363).                                      *)
(***************************************************************************)
NoLiveData == "No Live Data"

\* What a map callback leaves behind when it throws a TypeError.
Thrown == [thrown |-> TRUE]

\* The offset of the local time zone from UTC, in seconds: the feeds are
\* those of Brisbane, UTC+10 the year round.
ZoneOffset == 10 * 60 * 60

TwoDigits(n) == IF n < 10 THEN "0" \o ToString(n) ELSE ToString(n)

\* new Date(time * 1000).toLocaleTimeString("default", {hour12: false}):
\* the local time of day with its seconds.
unixTimeToHHmm(time) ==
    LET second == (time + ZoneOffset) % (24 * 60 * 60)
    IN  TwoDigits(second \div 3600) \o ":" \o TwoDigits((second % 3600) \div 60)
            \o ":" \o TwoDigits(second % 60)

\* object.time, with 0 standing for an absent (undefined) time: both are
\* falsy in the test of line 323.
TimeOf(object) == IF "time" \in DOMAIN object THEN object.time ELSE 0

\* Array.prototype.find over the entities with a test that reads
\* entity[kind].trip.tripId: the index of the first match (0 for none), or -1
\* when an entity without that member is reached first, where the test throws.
FindEntity(entity, kind, tripId) ==
    LET Matches(e) == kind \in DOMAIN e /\ e[kind].trip.tripId = tripId
        Breaks(e) == kind \notin DOMAIN e
        match == FindFirst(entity, Matches)
        break == FindFirst(entity, Breaks)
    IN  IF break # 0 /\ (match = 0 \/ break < match) THEN -1 ELSE match

\* The arrival time of a stop-time update, else its departure time; -1 when
\* the update has neither, where reading departure.time throws.
UnixTimeOf(stopUpdate) ==
    IF "arrival" \in DOMAIN stopUpdate
    THEN TimeOf(stopUpdate.arrival)
    ELSE IF "departure" \in DOMAIN stopUpdate
         THEN TimeOf(stopUpdate.departure)
         ELSE -1

\* The callback of the map of joinLiveTripsToData.
LiveTripItem(item, liveTripsData) ==
    IF liveTripsData = Null
    THEN Thrown
    ELSE LET at == FindEntity(liveTripsData.entity, "tripUpdate", item.trip_id)
             updates == liveTripsData.entity[at].tripUpdate.stopTimeUpdate
             IsStop(update) == update.stopId = item.stop_id
             stopAt == IF at = 0 THEN 0 ELSE FindFirst(updates, IsStop)
             unixTime == IF stopAt = 0 THEN 0 ELSE UnixTimeOf(updates[stopAt])
         IN  IF at = -1 \/ unixTime = -1
             THEN Thrown
             ELSE Spread(item, [live_arrival_time |->
                     IF unixTime # 0 THEN unixTimeToHHmm(unixTime) ELSE NoLiveData])

\* The callback of the map of joinLivePositionToData.
LivePositionItem(item, livePositionsData) ==
    IF livePositionsData = Null
    THEN Thrown
    ELSE LET at == FindEntity(livePositionsData.entity, "vehicle", item.trip_id)
         IN  IF at = -1
             THEN Thrown
             ELSE Spread(item, [position |->
                     IF at # 0 THEN livePositionsData.entity[at].vehicle.position
                     ELSE NoLiveData])

\* How a merge ends: the call it awaits may throw, and so may the callback
\* on any row; otherwise the mapped rows are returned.
MergeResult(call, mapped) ==
    IF call.outcome = "throw" \/ \E i \in 1..Len(mapped) : mapped[i] = Thrown
    THEN [outcome |-> "throw", rows |-> <<>>]
    ELSE [outcome |-> "return", rows |-> mapped]

joinLiveTripsToData(rows, call) ==
    LET Item(item) == LiveTripItem(item, call.value)
    IN  MergeResult(call, IF call.outcome = "throw" THEN <<>> ELSE Map(rows, Item))

joinLivePositionToData(rows, call) ==
    LET Item(item) == LivePositionItem(item, call.value)
    IN  MergeResult(call, IF call.outcome = "throw" THEN <<>> ELSE Map(rows, Item))

\* The schedule rows handed to the merges.
ScheduleRows ==
    { [trip_id |-> "T1", stop_id |-> "S1"],
      [trip_id |-> "T2", stop_id |-> "S1"] }

\* The files a run may find in the cache directory when it starts.
InitialFiles == {NoFile, Unparseable} \cup {JsonFile([entity |-> <<>>])}

NoCall ==
    [fileName |-> "none", before |-> NoFile, nowTime |-> 0, response |-> Rejected,
     outcome |-> "return", value |-> Null, fetched |-> FALSE]

NoMerge == [op |-> "none", input |-> <<>>, outcome |-> "return", rows |-> <<>>]

CacheIdle ==
    /\ clock = 0
    /\ files = [f \in FeedNames |-> NoFile]
    /\ lastCall = NoCall
    /\ merged = NoMerge

CacheInit ==
    /\ clock = 0
    /\ files \in [FeedNames -> InitialFiles]
    /\ lastCall = NoCall
    /\ merged = NoMerge

\* Time passes between two calls.
Tick ==
    /\ clock < MaxTicks * TickMs
    /\ clock' = clock + TickMs
    /\ UNCHANGED <<files, lastCall, merged>>
    /\ UNCHANGED <<pc, joinVars, calVars, timeVars>>

\* The record of one call of getOnlineCachableData.
CallRecord(fileName, response, call) ==
    [fileName |-> fileName, before |-> files[fileName], nowTime |-> clock,
     response |-> response, outcome |-> call.outcome, value |-> call.value,
     fetched |-> call.fetched]

\* One run of a merge: it awaits getOnlineCachableData for its feed and
\* maps the rows.
Merge(op, fileName, rows, response) ==
    LET call == getOnlineCachableData(fileName, files, clock, response)
        result == IF op = "trips" THEN joinLiveTripsToData(rows, call)
                  ELSE joinLivePositionToData(rows, call)
    IN  /\ files' = call.files
        /\ clock' = clock
        /\ lastCall' = CallRecord(fileName, response, call)
        /\ merged' = [op |-> op, input |-> rows,
                      outcome |-> result.outcome, rows |-> result.rows]
        /\ UNCHANGED <<pc, joinVars, calVars, timeVars>>

\* mainLoop merges the live trips into the rows of a query: at the start of
\* a run, after the previous query was displayed, or in a new run after a
\* merge threw and ended the previous one.
JoinLiveTrips ==
    /\ merged.op # "trips" \/ merged.outcome = "throw"
    /\ \E rows \in SeqUpTo(ScheduleRows, MaxMergeRows),
          response \in Responses("live_trips") :
           Merge("trips", "live_trips", rows, response)

\* mainLoop then merges the live positions into the rows the first merge
\* returned.
JoinLivePosition ==
    /\ merged.op = "trips" /\ merged.outcome = "return"
    /\ \E response \in Responses("live_positions") :
           Merge("positions", "live_positions", merged.rows, response)

\* Schedule rows handed to joinLiveTripsToData on its own: rows of a trip of
\* the feed at stops the feed has and at one it lacks, and rows of another
\* trip.
LiveRows ==
    { [trip_id |-> "T1", stop_id |-> "S1"],
      [trip_id |-> "T1", stop_id |-> "S2"],
      [trip_id |-> "T1", stop_id |-> "S9"],
      [trip_id |-> "T2", stop_id |-> "S1"],
      [trip_id |-> "T2", stop_id |-> "S2"] }

\* Payloads of the trip-updates feed: updates with an arrival, with a
\* departure only and with both; a skipped stop, whose update has neither;
\* two entities; and a feed without entities.
LiveTripFeeds ==
    TripFeeds \cup
    { [entity |-> << [tripUpdate |-> [trip |-> [tripId |-> "T1"],
          stopTimeUpdate |->
              << [stopId |-> "S1", scheduleRelationship |-> "SKIPPED"],
                 [stopId |-> "S2", arrival |-> [time |-> 1704060420]] >>]] >>],
      [entity |-> << [tripUpdate |-> [trip |-> [tripId |-> "T2"],
          stopTimeUpdate |->
              << [stopId |-> "S1", departure |-> [time |-> 1704063600]] >>]],
                     [tripUpdate |-> [trip |-> [tripId |-> "T1"],
          stopTimeUpdate |->
              << [stopId |-> "S2", arrival |-> [time |-> 1704060300],
                                   departure |-> [time |-> 1704060360]] >>]] >>],
      [entity |-> <<>>] }

\* One call of joinLiveTripsToData in a run that finds no cached feed and
\* whose fetch delivers a payload.
LiveTripsCall ==
    /\ merged.op = "none"
    /\ \E rows \in SeqUpTo(LiveRows, MaxLiveRows), feed \in LiveTripFeeds :
           Merge("trips", "live_trips", rows, Ok(feed))

(***************************************************************************)
(* The specifications.                                                     *)
(***************************************************************************)
Init == pc = "done" /\ JoinIdle /\ CalIdle /\ TimeIdle /\ CacheInit

Next == Tick \/ JoinLiveTrips \/ JoinLivePosition

Spec == Init /\ [][Next]_vars

InitJoin == pc = "input" /\ JoinInit /\ CalIdle /\ TimeIdle /\ CacheIdle

NextJoin == JoinCall

SpecJoin == InitJoin /\ [][NextJoin]_vars

InitCalendar == pc = "input" /\ JoinIdle /\ CalInit /\ TimeIdle /\ CacheIdle

NextCalendar == CalendarCall

SpecCalendar == InitCalendar /\ [][NextCalendar]_vars

InitLiveTrips == pc = "done" /\ JoinIdle /\ CalIdle /\ TimeIdle /\ CacheIdle

NextLiveTrips == LiveTripsCall

SpecLiveTrips == InitLiveTrips /\ [][NextLiveTrips]_vars

InitTime == pc = "input" /\ JoinIdle /\ CalIdle /\ TimeInit /\ CacheIdle

NextTime == TimeCall

SpecTime == InitTime /\ [][NextTime]_vars

(***************************************************************************)
(* Notions the properties are stated with.  They are read off the          *)
(* properties, not off the code.                                           *)
(***************************************************************************)
\* The number a string of decimal digits denotes.
RECURSIVE Numeral(_)
Numeral(str) ==
    IF str = <<>> THEN 0
    ELSE 10 * Numeral(SubSeq(str, 1, Len(str) - 1)) + DigitValue[str[Len(str)]]

\* A YYYYMMDD cell that holds a date; such dates are ordered as their numerals.
IsDateCell(str) == Len(str) = 8 /\ \A i \in 1..8 : str[i] \in Digits

\* The target date as a YYYYMMDD numeral.
TargetNumeral == Numeral(SelectSeq(dateString, LAMBDA c : c \in Digits))

\* The ISO weekday (1 = Monday ... 7 = Sunday) of the target dates, from the
\* calendar of 2023 and 2024.
IsoWeekday ==
    CASE TargetNumeral = 20231231 -> 7
      [] TargetNumeral = 20240101 -> 1
      [] TargetNumeral = 20240106 -> 6
      [] TargetNumeral = 20240131 -> 3
      [] TargetNumeral = 20240201 -> 4

\* The records of calendar.txt and calendar_dates.txt: the rows after the
\* header line.
CalendarRecords == {calendar[i] : i \in 2..Len(calendar)}

ExceptionRecords == {calendarDates[i] : i \in 2..Len(calendarDates)}

RecordsOf(s) == {r \in CalendarRecords : r[1] = s}

\* A record whose weekday flag is set for the target date and whose closed
\* date range holds the target date.
RunsOnTarget(r) ==
    /\ r[IsoWeekday + 1] = "1"
    /\ IsDateCell(r[9]) /\ IsDateCell(r[10])
    /\ Numeral(r[9]) <= TargetNumeral /\ TargetNumeral <= Numeral(r[10])

ActiveByRecurrence(s) == \E r \in RecordsOf(s) : RunsOnTarget(r)

\* The service has an exception of the given type dated on the target date.
HasException(s, type) ==
    \E e \in ExceptionRecords :
        e[1] = s /\ e[3] = type /\ IsDateCell(e[2]) /\ Numeral(e[2]) = TargetNumeral

NoExceptionFor(s) == ~HasException(s, "1") /\ ~HasException(s, "2")

Returned(s) == \E i \in 1..Len(services) : services[i] = s

(***************************************************************************)
(* Properties of getActiveServicesOnDate, under SpecCalendar.              *)
(***************************************************************************)
\* C1: the exceptions dated on the target date are applied: a service the
\* recurrence excludes but that has an added (1) exception for the date is in
\* the returned set, and a service the recurrence includes but that has a
\* removed (2) exception for the date is not.
C1_ExceptionOverride ==
    pc = "done" =>
        \A s \in ServiceIds :
            /\ (~ActiveByRecurrence(s) /\ HasException(s, "1") /\ ~HasException(s, "2"))
                   => Returned(s)
            /\ (ActiveByRecurrence(s) /\ HasException(s, "2") /\ ~HasException(s, "1"))
                   => ~Returned(s)

\* C2: with no exception for the target date, a service whose calendar
\* records all hold dates is returned if and only if one of its records has
\* the flag of the target date's ISO weekday set and a date range holding the
\* target date; a record whose flag for that weekday is 0 never brings its
\* service in.
C2_WeekdayAndRange ==
    pc = "done" =>
        \A s \in ServiceIds :
            (/\ NoExceptionFor(s)
             /\ \A r \in RecordsOf(s) : IsDateCell(r[9]) /\ IsDateCell(r[10]))
                => (Returned(s) <=> ActiveByRecurrence(s))

\* C3: the date range is a closed interval: for a service with a single
\* calendar record, whose weekday flag is set for the target date and which
\* has no exception, the service is returned when the target date is the
\* start date, when it is the end date and on every date between them, and is
\* not returned on a date before the start date or after the end date.
C3_ClosedInterval ==
    pc = "done" =>
        \A r \in CalendarRecords :
            (/\ RecordsOf(r[1]) = {r}
             /\ r[IsoWeekday + 1] = "1"
             /\ IsDateCell(r[9]) /\ IsDateCell(r[10])
             /\ NoExceptionFor(r[1]))
                => (Returned(r[1]) <=>
                       (Numeral(r[9]) <= TargetNumeral /\ TargetNumeral <= Numeral(r[10])))

\* C3 witness: a service whose range ends on 2024-01-31 is returned for the
\* target date 2024-01-31.
C3_Witness ==
    /\ pc = "done"
    /\ dateString = Dashed(D20240131)
    /\ Len(calendar) = 2
    /\ calendar[2][10] = D20240131
    /\ calendar[2][IsoWeekday + 1] = "1"
    /\ Returned(calendar[2][1])

(***************************************************************************)
(* Properties of filterDataByTime, under SpecTime.                         *)
(***************************************************************************)
\* The minutes since midnight of a clock time H:mm, HH:mm or HH:mm:ss:
\* hours * 60 + minutes, the hours being the digits before the first colon
\* and the minutes the two digits after it.
ClockMinutes(str) ==
    LET colon == CHOOSE i \in 1..Len(str) :
                     str[i] = ":" /\ \A j \in 1..(i - 1) : str[j] # ":"
    IN  Numeral(SubSeq(str, 1, colon - 1)) * 60
            + Numeral(SubSeq(str, colon + 1, colon + 2))

InWindow(row) ==
    /\ ClockMinutes(row.arrival_time) >= ClockMinutes(timeString)
    /\ ClockMinutes(row.arrival_time) < ClockMinutes(timeString) + timeLength

\* C4: the rows kept are exactly the rows whose arrival time in minutes since
\* midnight lies in [target minutes, target minutes + window), in input order.
C4_HalfOpenWindow == pc = "done" => filtered = SelectSeq(data, InWindow)

\* C4, for a target time typed with a two-digit hour: the property holds of
\* every such call.
C4_HoldsForTwoDigitHours ==
    (pc = "done" /\ Len(timeString) = 5) => filtered = SelectSeq(data, InWindow)

(***************************************************************************)
(* Properties of joinObjectsOnField, under SpecJoin.                       *)
(***************************************************************************)
Min(a, b) == IF a < b THEN a ELSE b

\* C5 as stated: an inner join returns at most min(|left|, |right|) rows.
C5_AtMostMinOfBoth ==
    (pc = "done" /\ joinType = "inner") => Len(joined) <= Min(Len(left), Len(right))

\* C5 as amended: an inner join returns at most |left| rows, and none when
\* the right operand is empty.
C5_AtMostLeft ==
    (pc = "done" /\ joinType = "inner") =>
        /\ Len(joined) <= Len(left)
        /\ (right = <<>> => joined = <<>>)

\* C5 witness: an inner join in which two left rows matched the single right
\* row.
C5_Witness ==
    /\ pc = "done" /\ joinType = "inner"
    /\ Len(right) = 1 /\ Len(left) = 2 /\ Len(joined) = 2

\* The left operand of the left join that the call performs: a right join
\* is performed as the left join of the swapped operands.
LeftOperand == IF joinType = "right" THEN right ELSE left

CarriedFields == {addFieldsFromJoin[i] : i \in 1..Len(addFieldsFromJoin)}

\* C6: a left join returns exactly one row per left row, in left input
\* order: row i of the output holds every field of left row i, with the left
\* row's own value for the key and for every field that is not carried.
C6_LeftJoinComplete ==
    (pc = "done" /\ joinType \in {"left", "right"}) =>
        /\ Len(joined) = Len(LeftOperand)
        /\ \A i \in 1..Len(LeftOperand) :
              /\ DOMAIN LeftOperand[i] \subseteq DOMAIN joined[i]
              /\ \A f \in DOMAIN LeftOperand[i] :
                    (f = onField \/ f \notin CarriedFields)
                        => joined[i][f] = LeftOperand[i][f]

\* C6 witness: a left join of two left rows, the first without a right row
\* of its key and returned as it is, the second matched and extended.
C6_Witness ==
    /\ pc = "done" /\ joinType = "left"
    /\ Len(left) = 2 /\ Len(joined) = 2
    /\ \A j \in 1..Len(right) : GetField(right[j], onField) # GetField(left[1], onField)
    /\ joined[1] = left[1]
    /\ \E j \in 1..Len(right) : GetField(right[j], onField) = GetField(left[2], onField)
    /\ joined[2] # left[2]

(***************************************************************************)
(* Properties of getOnlineCachableData and of the live merges, under Spec. *)
(* lastCall is the latest call of getOnlineCachableData: the file it found *)
(* (before), the time of the call, the answer the network had for it.      *)
(***************************************************************************)
Called == lastCall.fileName # "none"

\* The file found by the latest call was a stored entry with a cached_time.
FoundEntry ==
    /\ lastCall.before.exists
    /\ lastCall.before.parses
    /\ "cached_time" \in DOMAIN lastCall.before.json

\* The age, at the latest call, of the entry it found.
FoundAge == lastCall.nowTime - lastCall.before.json.cached_time

FiveMinutes == 5 * 60 * 1000

\* C7: a call that finds a stored entry younger than 5 minutes returns that
\* entry without fetching; a call that finds an entry aged 5 minutes or more,
\* or no entry, fetches; and no call returns an entry aged 5 minutes or more.
C7_CacheTTL ==
    Called =>
        /\ (FoundEntry /\ FoundAge < FiveMinutes) =>
               /\ ~lastCall.fetched
               /\ lastCall.outcome = "return"
               /\ lastCall.value = lastCall.before.json
        /\ (FoundEntry /\ FoundAge >= FiveMinutes) => lastCall.fetched
        /\ ~lastCall.before.exists => lastCall.fetched
        /\ (lastCall.outcome = "return" /\ lastCall.value # Null) =>
               /\ "cached_time" \in DOMAIN lastCall.value
               /\ lastCall.nowTime - lastCall.value.cached_time < FiveMinutes

\* C7 witness: a call served from the cache 4 minutes after the fetch that
\* stored the entry.
C7_Witness ==
    /\ Called /\ FoundEntry
    /\ FoundAge = 4 * 60 * 1000
    /\ ~lastCall.fetched
    /\ lastCall.value = lastCall.before.json

\* The latest call fetched and the fetch failed: fetch rejected, or the
\* response's status was not a success.
FetchFailed ==
    /\ Called /\ lastCall.fetched
    /\ (lastCall.response.kind = "rejected" \/ ~lastCall.response.ok)

FetchSucceeded ==
    /\ Called /\ lastCall.fetched
    /\ lastCall.response.kind = "response" /\ lastCall.response.ok

\* The field a merge attaches.
AttachedField == IF merged.op = "trips" THEN "live_arrival_time" ELSE "position"

\* C8: a merge whose feed fetch failed, getOnlineCachableData returning null
\* to it, completes without error and returns the input rows, none dropped,
\* each with the "No Live Data" sentinel attached.
C8_GracefulAbsence ==
    (merged.op # "none" /\ FetchFailed /\ lastCall.outcome = "return" /\ lastCall.value = Null) =>
        /\ merged.outcome = "return"
        /\ Len(merged.rows) = Len(merged.input)
        /\ \A i \in 1..Len(merged.input) :
              /\ AttachedField \in DOMAIN merged.rows[i]
              /\ merged.rows[i][AttachedField] = "No Live Data"
              /\ \A f \in DOMAIN merged.input[i] :
                    f \in DOMAIN merged.rows[i] /\ merged.rows[i][f] = merged.input[i][f]

\* C9: a call whose fetch failed, by transport failure or by a non-success
\* status, returns null and does not throw.
C9_NullOnFailure ==
    FetchFailed => (lastCall.outcome = "return" /\ lastCall.value = Null)

FoundCorrupt ==
    /\ Called
    /\ lastCall.before.exists
    /\ (~lastCall.before.parses \/ "cached_time" \notin DOMAIN lastCall.before.json)

\* C11: a call that finds a corrupt stored entry treats it as a miss: it
\* fetches, and it ends as a call that found no file ends, returning what the
\* fetch gave whenever fetch itself did not reject.
C11_CorruptIsMiss ==
    FoundCorrupt =>
        /\ lastCall.fetched
        /\ lastCall.response.kind = "response" =>
               /\ lastCall.outcome = "return"
               /\ lastCall.response.ok => FetchSucceeded /\ lastCall.value # Null
               /\ ~lastCall.response.ok => lastCall.value = Null

\* C11 witness: a call found a file that does not parse, fetched and returned
\* the fetched feed.
C11_Witness ==
    /\ FoundCorrupt /\ ~lastCall.before.parses
    /\ lastCall.fetched
    /\ lastCall.outcome = "return" /\ lastCall.value # Null


\* A calendar record whose start_date or end_date does not hold a date, so
\* that Date.parse of its dashed form is NaN.
MalformedRange(r) == ~IsDateCell(r[9]) \/ ~IsDateCell(r[10])

\* C12: a calendar record whose start_date or end_date fails to parse is
\* excluded from the returned services: a service all of whose records are
\* such, and that no exception for the date names, is not returned.
C12_MalformedExcluded ==
    pc = "done" =>
        \A r \in CalendarRecords :
            ( /\ MalformedRange(r)
              /\ \A q \in RecordsOf(r[1]) : MalformedRange(q)
              /\ NoExceptionFor(r[1]) )
            => ~Returned(r[1])


(***************************************************************************)
(* First-match semantics of joinObjectsOnField, under SpecJoin.            *)
(***************************************************************************)
\* The key of right row j is exactly equal to the key of left row i (two
\* absent keys are both undefined, and equal).
KeyEqual(i, j) == GetField(right[j], onField) = GetField(left[i], onField)

\* The position of the first right row, in right input order, of the key of
\* left row i; 0 when there is none.
FirstMatchOf(i) ==
    IF \E j \in 1..Len(right) : KeyEqual(i, j)
    THEN CHOOSE j \in 1..Len(right) :
             KeyEqual(i, j) /\ \A k \in 1..(j - 1) : ~KeyEqual(i, k)
    ELSE 0

\* The row expected for left row i: its own fields, and from its first right
\* row only the carried fields that row has, which replace its own.
ExpectedRow(i) ==
    IF FirstMatchOf(i) = 0 THEN left[i]
    ELSE LET rightItem == right[FirstMatchOf(i)]
             carried == CarriedFields \cap DOMAIN rightItem
         IN  [f \in DOMAIN left[i] \cup carried |->
                 IF f \in carried THEN rightItem[f] ELSE left[i][f]]

\* The left rows that the join keeps: all for left, the matched for inner.
KeptLeft == {i \in 1..Len(left) : joinType = "left" \/ FirstMatchOf(i) # 0}

\* C13: an inner or left join returns, in left input order, for each left
\* row its fields merged with only the carried fields present on the first
\* right row of exactly its key; a left row without such a row is dropped by
\* inner and returned as it is by left.
C13_FirstMatchMerge ==
    (pc = "done" /\ joinType \in {"inner", "left"}) =>
        /\ Len(joined) = Cardinality(KeptLeft)
        /\ \A i \in KeptLeft :
              joined[Cardinality({k \in KeptLeft : k <= i})] = ExpectedRow(i)

\* C13 witness: an inner join whose first left row has no right row and is
\* dropped, and whose second left row has two right rows of its key with
\* different route_id and is returned with the first one's.
C13_Witness ==
    /\ pc = "done" /\ joinType = "inner"
    /\ Len(left) = 2 /\ Len(right) = 2 /\ Len(joined) = 1
    /\ FirstMatchOf(1) = 0
    /\ KeyEqual(2, 1) /\ KeyEqual(2, 2)
    /\ GetField(right[1], "route_id") # GetField(right[2], "route_id")
    /\ GetField(joined[1], "route_id") = GetField(right[1], "route_id")
    /\ GetField(joined[1], "stop_id") = GetField(left[2], "stop_id")


(***************************************************************************)
(* joinLiveTripsToData on feed payloads, under SpecLiveTrips.              *)
(***************************************************************************)
\* The payload that the latest fetch delivered.
FeedPayload == lastCall.response.json

\* The stop-time updates of the payload for a row: those with the row's
\* stop_id in a trip-update entity with the row's trip_id.
StopUpdatesFor(row) ==
    UNION { { FeedPayload.entity[j].tripUpdate.stopTimeUpdate[k] :
                k \in { n \in 1..Len(FeedPayload.entity[j].tripUpdate.stopTimeUpdate) :
                          FeedPayload.entity[j].tripUpdate.stopTimeUpdate[n].stopId
                              = row.stop_id } } :
            j \in { m \in 1..Len(FeedPayload.entity) :
                      FeedPayload.entity[m].tripUpdate.trip.tripId = row.trip_id } }

\* The live_arrival_time of an output row is the one the updates give: the
\* sentinel without an update, the time of day of the arrival of an update
\* that has one, else that of its departure.
LiveTimeAgrees(row, out) ==
    /\ "live_arrival_time" \in DOMAIN out
    /\ StopUpdatesFor(row) = {} => out.live_arrival_time = NoLiveData
    /\ \A u \in StopUpdatesFor(row) :
          /\ "arrival" \in DOMAIN u =>
                 out.live_arrival_time = unixTimeToHHmm(u.arrival.time)
          /\ ("arrival" \notin DOMAIN u /\ "departure" \in DOMAIN u) =>
                 out.live_arrival_time = unixTimeToHHmm(u.departure.time)

\* The merge returned one row per input row, in order, each with the input
\* row's fields and the live_arrival_time the payload gives.
LiveTripsMerged ==
    /\ merged.outcome = "return"
    /\ Len(merged.rows) = Len(merged.input)
    /\ \A i \in 1..Len(merged.input) :
          /\ \A f \in DOMAIN merged.input[i] :
                f \in DOMAIN merged.rows[i] /\ merged.rows[i][f] = merged.input[i][f]
          /\ LiveTimeAgrees(merged.input[i], merged.rows[i])

\* C14: joinLiveTripsToData, given a feed payload, returns one row per input
\* row in the same order, each with live_arrival_time derived from the arrival
\* time of the update matching its trip_id and stop_id, or from the departure
\* time when arrival is absent, and with "No Live Data" when no entity or no
\* update matches; no feed content makes the merge fail.
C14_LiveArrivalTimes ==
    (merged.op = "trips" /\ FetchSucceeded) => LiveTripsMerged

\* Every update of the payload that a row of the merge matched has an
\* arrival or a departure.
MatchedUpdatesTimed ==
    \A i \in 1..Len(merged.input) :
        \A u \in StopUpdatesFor(merged.input[i]) :
            "arrival" \in DOMAIN u \/ "departure" \in DOMAIN u

\* The statement of C14 holds for the payloads in which every matched update
\* has an arrival or a departure.
C14_HoldsWhenUpdatesTimed ==
    (merged.op = "trips" /\ FetchSucceeded /\ MatchedUpdatesTimed) => LiveTripsMerged


\* Every stored entry that parses holds a feed payload, never null.
NoNullStored ==
    \A f \in FeedNames :
        (files[f].exists /\ files[f].parses) =>
            files[f].json # Null /\ "entity" \in DOMAIN files[f].json

\* C15: a call whose fetch fails, by a non-success status or by a rejection,
\* leaves the cache store as it was: no entry is created and a stale entry
\* keeps its payload and its cached_time; and no null payload is ever stored.
C15_FailedFetchKeepsStore ==
    /\ []NoNullStored
    /\ [][FetchFailed' => files' = files]_vars

\* C15 witness: a call found an entry aged 5 minutes or more, its fetch was
\* answered with a non-success status, and the entry is still the stored one.
C15_Witness ==
    /\ FetchFailed /\ lastCall.response.kind = "response"
    /\ FoundEntry /\ FoundAge >= FiveMinutes
    /\ "entity" \in DOMAIN lastCall.before.json
    /\ Len(lastCall.before.json.entity) > 0
    /\ files[lastCall.fileName] = lastCall.before

====
